---- MODULE Spec2Model ----
(***************************************************************************)
(* Model of src/src/ai/flows/kpi-detection.ts: the detectKpis flow, its    *)
(* prompt template and its retry loop with exponential backoff.            *)
(*                                                                         *)
(* Text is modelled as a sequence of tokens (words), so that the substring *)
(* test of line 78 and the rendering of the template of lines 43-56 are    *)
(* computed rather than assumed.                                           *)
(***************************************************************************)
EXTENDS Integers, Sequences, FiniteSets

\* Number of invocations of detectKpis that may be in flight together.
NumInv == 2

Inv == 1..NumInv

Range(s) == {s[k] : k \in 1..Len(s)}

\* String.prototype.includes on token sequences: needle occurs contiguously.
Includes(hay, needle) ==
    \E k \in 0..(Len(hay) - Len(needle)) :
        SubSeq(hay, k + 1, k + Len(needle)) = needle

(***************************************************************************)
(* Inputs: DetectKpisInputSchema (lines 13-16).                            *)
(***************************************************************************)
\* A survey response is a sequence of <<column, value>> pairs.
RecordA == << <<"age", "30">>, <<"satisfaction", "high">> >>
RecordB == << <<"age", "45">>, <<"satisfaction", "low">> >>

SurveyDatasets == { << >>, <<RecordA, RecordB>> }

\* language: z.string().optional(): absent, or any string (the empty one too).
LangAbsent == [defined |-> FALSE, str |-> ""]
LangEmpty  == [defined |-> TRUE,  str |-> ""]
LangFr     == [defined |-> TRUE,  str |-> "fr"]

Languages == {LangAbsent, LangEmpty, LangFr}

Inputs == [surveyData : SurveyDatasets, language : Languages]

NoInput == [surveyData |-> << >>, language |-> LangAbsent]

(***************************************************************************)
(* The prompt template (lines 43-56), rendered by Handlebars.              *)
(***************************************************************************)
Preamble == <<"You are an expert data analyst specializing in survey data. [...] Also explain the reasoning behind why these data points are KPIs.">>

\* {{#if language}}: the block is rendered when the value is truthy; undefined
\* and the empty string are falsy.
IfLanguage(language) == language.defined /\ language.str # ""

LanguageClause(language) ==
    <<"Note: The survey data is in", language.str,
      "language. Please consider language-specific nuances when identifying KPIs. Column names and values may be in",
      language.str, ".">>

\* An object interpolated into text is coerced with Object.prototype.toString.
ObjectToString(rec) == <<"[object Object]">>

\* Array.prototype.toString: the elements' strings joined by ",".
RECURSIVE ArrayToString(_)
ArrayToString(arr) ==
    IF Len(arr) = 0 THEN << >>
    ELSE IF Len(arr) = 1 THEN ObjectToString(arr[1])
    ELSE ObjectToString(arr[1]) \o <<",">> \o ArrayToString(Tail(arr))

\* {{{surveyData}}}: the value is appended to the text unescaped, that is,
\* coerced to a string.
TripleStash(value) == ArrayToString(value)

detectKpisPrompt(input) ==
    Preamble
    \o (IF IfLanguage(input.language) THEN LanguageClause(input.language) ELSE << >>)
    \o <<"Survey Data:">> \o TripleStash(input.surveyData)

(***************************************************************************)
(* What the external prompt call can produce.                              *)
(***************************************************************************)
\* output of a fulfilled call: a DetectKpisOutput (lines 19-22) or null.
KpiOutput  == [isNull |-> FALSE, kpis |-> <<"age">>, explanation |-> "age correlates with every other numeric column"]
NullOutput == [isNull |-> TRUE,  kpis |-> << >>,     explanation |-> ""]

Outputs == {KpiOutput, NullOutput}

\* Values a rejected call can throw. hasMessage is FALSE for a thrown value
\* whose .message is undefined (a plain object, a string, a number).
RateLimitErr == [type |-> "Error", hasMessage |-> TRUE,
                 message |-> <<"[GoogleGenerativeAI Error]:", "[", "429", "Too", "Many", "Requests", "]", "Resource has been exhausted">>]
ServerErr    == [type |-> "Error", hasMessage |-> TRUE,
                 message |-> <<"500", "Internal", "Server", "Error">>]
BlankErr     == [type |-> "Error", hasMessage |-> TRUE, message |-> << >>]
BareValue    == [type |-> "object", hasMessage |-> FALSE, message |-> << >>]

NoError == [type |-> "none", hasMessage |-> FALSE, message |-> << >>]


\* TypeError raised by the catch block itself when error.message is undefined.
TypeErr == [type |-> "TypeError", hasMessage |-> TRUE,
            message |-> <<"Cannot read properties of undefined (reading 'includes')">>]

\* new Error(...) of line 90.
ExhaustedErr == [type |-> "Error", hasMessage |-> TRUE,
                 message |-> <<"Failed to detect KPIs after multiple retries due to rate limiting.">>]

ThrownValues == {RateLimitErr, ServerErr, BlankErr, BareValue}

\* One settled external call, as the retry loop sees it.
Fulfilled(out) == [ok |-> TRUE,  output |-> out,        error |-> NoError]
Rejection(err) == [ok |-> FALSE, output |-> NullOutput, error |-> err]

(***************************************************************************)
(* The flow handler (lines 68-91).                                         *)
(***************************************************************************)
maxRetries == 3

initialDelay == 2000

\* Off-by-one loop test.
LoopTestInclusive(r) == r <= maxRetries

\* while (retries < maxRetries)
LoopTest(r) == r < maxRetries

\* Every error with a message is retried.
IsRateLimitErrorAny(err) == TRUE

\* error.message.includes('429 Too Many Requests')
IsRateLimitError(err) == Includes(err.message, <<"429", "Too", "Many", "Requests">>)

\* delay *= 3
NextDelayTriple(d) == d * 3

\* delay *= 2
NextDelay(d) == d * 2

\* retries incremented twice per failed attempt.
NextRetriesByTwo(r) == r + 2

\* retries++
NextRetries(r) == r + 1

\* Events an invocation leaves behind, in order.
CallEvent(n)    == [ev |-> "call",  n |-> n]
WarnEvent(secs) == [ev |-> "warn",  n |-> secs]
SleepEvent(ms)  == [ev |-> "sleep", n |-> ms]

\* The activation of the handler before detectKpis is called.
IdleFrame ==
    [pc |-> "idle", input |-> NoInput, retries |-> 0, delay |-> 0,
     calls |-> 0, payload |-> << >>, trace |-> << >>,
     result |-> NullOutput, error |-> NoError, exit |-> "none"]

\* The loop falls through without the throw of line 90.
LoopHeadFallsThrough(f) ==
    IF LoopTest(f.retries)
    THEN [f EXCEPT !.pc = "awaiting",
                   !.calls = @ + 1,
                   !.payload = detectKpisPrompt(f.input),
                   !.trace = Append(@, CallEvent(f.calls + 1))]
    ELSE [f EXCEPT !.pc = "returned", !.result = NullOutput, !.exit = "return"]

\* Top of the while loop: either the next prompt call is issued (the handler
\* then awaits it), or the loop ends and line 90 throws.
LoopHead(f) ==
    IF LoopTest(f.retries)
    THEN [f EXCEPT !.pc = "awaiting",
                   !.calls = @ + 1,
                   !.payload = detectKpisPrompt(f.input),
                   !.trace = Append(@, CallEvent(f.calls + 1))]
    ELSE [f EXCEPT !.pc = "threw", !.error = ExhaustedErr, !.exit = "exhausted"]

\* Lines 69-71, then the first pass through the loop head.
Start(input) ==
    LoopHead([IdleFrame EXCEPT !.input = input, !.retries = 0, !.delay = initialDelay])

\* retries++ moved to where every attempt passes (a finally block).
ResolvedCountsAttempt(f, out) ==
    [f EXCEPT !.pc = "returned", !.result = out, !.exit = "return", !.retries = @ + 1]

\* Lines 75-76: return output!  (the non-null assertion has no run-time effect).
Resolved(f, out) ==
    [f EXCEPT !.pc = "returned", !.result = out, !.exit = "return"]

\* delay doubled before the timer is armed instead of after it.
RejectedDoublesBeforeSleep(f, err) ==
    IF ~err.hasMessage
    THEN [f EXCEPT !.pc = "threw", !.error = TypeErr, !.exit = "catch"]
    ELSE IF IsRateLimitError(err)
    THEN [f EXCEPT !.pc = "sleeping",
                   !.trace = Append(Append(@, WarnEvent(f.delay \div 1000)),
                                    SleepEvent(NextDelay(f.delay)))]
    ELSE [f EXCEPT !.pc = "threw", !.error = err, !.exit = "rethrow"]

\* Lines 77-86, up to the await of the timer.
Rejected(f, err) ==
    IF ~err.hasMessage
    THEN [f EXCEPT !.pc = "threw", !.error = TypeErr, !.exit = "catch"]
    ELSE IF IsRateLimitError(err)
    THEN [f EXCEPT !.pc = "sleeping",
                   !.trace = Append(Append(@, WarnEvent(f.delay \div 1000)),
                                    SleepEvent(f.delay))]
    ELSE [f EXCEPT !.pc = "threw", !.error = err, !.exit = "rethrow"]

\* The doubling of line 81 left out.
ElapsedKeepsDelay(f) ==
    LoopHead([f EXCEPT !.retries = NextRetries(@)])

\* Lines 81-82 after the timer fires, then back to the loop head.
Elapsed(f) ==
    LoopHead([f EXCEPT !.delay = NextDelay(@), !.retries = NextRetries(@)])

(***************************************************************************)
(* State: one activation per invocation, and the responses each received.  *)
(***************************************************************************)
VARIABLES frame, hist

vars == <<frame, hist>>

Init ==
    /\ frame = [i \in Inv |-> IdleFrame]
    /\ hist = [i \in Inv |-> << >>]

\* detectKpis(input) (lines 25-27) runs the handler up to its first await.
Invoke(i, input) ==
    /\ frame[i].pc = "idle"
    /\ frame' = [frame EXCEPT ![i] = Start(input)]
    /\ UNCHANGED hist

\* The awaited prompt call fulfils with {output}.
PromptResolves(i, out) ==
    /\ frame[i].pc = "awaiting"
    /\ frame' = [frame EXCEPT ![i] = Resolved(@, out)]
    /\ hist' = [hist EXCEPT ![i] = Append(@, Fulfilled(out))]

\* The awaited prompt call rejects with err.
PromptRejects(i, err) ==
    /\ frame[i].pc = "awaiting"
    /\ frame' = [frame EXCEPT ![i] = Rejected(@, err)]
    /\ hist' = [hist EXCEPT ![i] = Append(@, Rejection(err))]

\* delay kept in one place for all invocations: doubling it for one doubles
\* it for every other invocation too.
TimerFiresShared(i) ==
    /\ frame[i].pc = "sleeping"
    /\ frame' = [j \in Inv |->
                    IF j = i THEN Elapsed(frame[j])
                    ELSE [frame[j] EXCEPT !.delay = NextDelay(@)]]
    /\ UNCHANGED hist

\* The setTimeout of line 80 fires.
TimerFires(i) ==
    /\ frame[i].pc = "sleeping"
    /\ frame' = [frame EXCEPT ![i] = Elapsed(@)]
    /\ UNCHANGED hist

Next ==
    \/ \E i \in Inv, input \in Inputs : Invoke(i, input)
    \/ \E i \in Inv, out \in Outputs : PromptResolves(i, out)
    \/ \E i \in Inv, err \in ThrownValues : PromptRejects(i, err)
    \/ \E i \in Inv : TimerFires(i)

Spec == Init /\ [][Next]_vars

(***************************************************************************)
(* Vocabulary of the properties.                                           *)
(***************************************************************************)
Last(s) == s[Len(s)]

Front(s) == SubSeq(s, 1, Len(s) - 1)

IsSleep(e) == e.ev = "sleep"

IsWarn(e) == e.ev = "warn"

IsCallOrSleep(e) == e.ev \in {"call", "sleep"}

\* The durations slept so far, in order.
Sleeps(trace) == [k \in 1..Len(SelectSeq(trace, IsSleep)) |-> SelectSeq(trace, IsSleep)[k].n]

RECURSIVE Sum(_)
Sum(s) == IF Len(s) = 0 THEN 0 ELSE s[1] + Sum(Tail(s))

\* The response sequence h is k rate-limit failures followed by one success.
RateLimitsThenSuccess(h, k) ==
    /\ Len(h) = k + 1
    /\ \A j \in 1..k : h[j] = Rejection(RateLimitErr)
    /\ h[k + 1].ok

\* call 1, sleep 2000, call 2, sleep 4000, ..., call k+1
BackoffSchedule(k) ==
    [j \in 1..(2 * k + 1) |->
        IF j % 2 = 1 THEN CallEvent((j + 1) \div 2)
        ELSE SleepEvent(2000 * 2 ^ ((j \div 2) - 1))]

\* The last response was a rejection with an error that is not a rate-limit one.
EndsWithOtherError(h) ==
    /\ Len(h) > 0
    /\ ~Last(h).ok
    /\ Last(h).error \in {ServerErr, BlankErr, BareValue}

(***************************************************************************)
(* C1: in one invocation the external prompt call is made at most 3 times, *)
(* whatever the external call answers.                                     *)
(***************************************************************************)
C1_AtMostThreeCalls ==
    \A i \in Inv :
        /\ frame[i].calls <= 3
        /\ Len(hist[i]) <= 3
        /\ Cardinality({k \in 1..Len(frame[i].trace) : frame[i].trace[k].ev = "call"}) = frame[i].calls

C1_Witness ==
    \E i \in Inv : frame[i].calls = 3 /\ frame[i].pc = "threw" /\ frame[i].exit = "exhausted"

(***************************************************************************)
(* C2: after k < 3 rate-limit failures followed by a success, detectKpis   *)
(* returns the output of the successful call, having slept exactly k times *)
(* with delays 2000, 4000 in that order, one sleep between each failed     *)
(* attempt and the next attempt.                                           *)
(***************************************************************************)
C2_BackoffThenSuccess ==
    \A i \in Inv : \A k \in 0..2 :
        RateLimitsThenSuccess(hist[i], k) =>
            /\ frame[i].pc = "returned"
            /\ frame[i].result = Last(hist[i]).output
            /\ Sleeps(frame[i].trace) = [j \in 1..k |-> 2000 * 2 ^ (j - 1)]
            /\ SelectSeq(frame[i].trace, IsCallOrSleep) = BackoffSchedule(k)

C2_Witness ==
    \E i \in Inv :
        /\ RateLimitsThenSuccess(hist[i], 2)
        /\ frame[i].pc = "returned"
        /\ Sleeps(frame[i].trace) = <<2000, 4000>>

(***************************************************************************)
(* C3: when the first attempt succeeds, detectKpis returns that call's     *)
(* output after exactly one external call, with no sleep, no warning and   *)
(* retries still 0.                                                        *)
(***************************************************************************)
C3_FirstAttemptSuccess ==
    \A i \in Inv :
        (Len(hist[i]) = 1 /\ hist[i][1].ok) =>
            /\ frame[i].pc = "returned"
            /\ frame[i].result = hist[i][1].output
            /\ frame[i].calls = 1
            /\ frame[i].trace = <<CallEvent(1)>>
            /\ frame[i].retries = 0

C3_Witness ==
    \E i \in Inv :
        /\ hist[i] = <<Fulfilled(KpiOutput)>>
        /\ frame[i].pc = "returned"
        /\ frame[i].result = KpiOutput

(***************************************************************************)
(* C4: after rate-limit errors on 3 consecutive attempts detectKpis fails  *)
(* with the error 'Failed to detect KPIs after multiple retries due to     *)
(* rate limiting.' and no fourth external call is made.                    *)
(***************************************************************************)
C4_ExhaustedAfterThree ==
    \A i \in Inv :
        hist[i] = <<Rejection(RateLimitErr), Rejection(RateLimitErr), Rejection(RateLimitErr)>> =>
            /\ frame[i].calls = 3
            /\ frame[i].pc \in {"sleeping", "threw"}
            /\ frame[i].pc = "threw" =>
                  /\ frame[i].error = ExhaustedErr
                  /\ frame[i].error.message =
                        <<"Failed to detect KPIs after multiple retries due to rate limiting.">>

C4_Witness ==
    \E i \in Inv :
        /\ hist[i] = <<Rejection(RateLimitErr), Rejection(RateLimitErr), Rejection(RateLimitErr)>>
        /\ frame[i].pc = "threw"
        /\ frame[i].error = ExhaustedErr

(***************************************************************************)
(* C5: an error that is not a rate-limit error, on any attempt, ends the   *)
(* invocation at once: no sleep follows it, no further external call is    *)
(* made, and retries is not incremented by it.                             *)
(***************************************************************************)
C5_OtherErrorEndsInvocation ==
    \A i \in Inv :
        EndsWithOtherError(hist[i]) =>
            /\ frame[i].pc = "threw"
            /\ frame[i].exit # "exhausted"
            /\ Last(frame[i].trace) = CallEvent(Len(hist[i]))
            /\ frame[i].calls = Len(hist[i])
            /\ Len(Sleeps(frame[i].trace)) = Len(hist[i]) - 1
            /\ frame[i].retries = Len(hist[i]) - 1

C5_Witness ==
    \E i \in Inv :
        /\ hist[i] = <<Rejection(RateLimitErr), Rejection(ServerErr)>>
        /\ frame[i].pc = "threw"
        /\ frame[i].retries = 1

(***************************************************************************)
(* C6: a successful call without output ends detectKpis in a failure;      *)
(* every value detectKpis returns is a result with kpis and explanation.   *)
(***************************************************************************)
C6_NeverReturnsMissingOutput ==
    \A i \in Inv :
        frame[i].pc = "returned" => ~frame[i].result.isNull

(***************************************************************************)
(* C7: for every failure of the external call that is not a rate-limit     *)
(* error, the error reaching the caller is the value the call raised,      *)
(* unchanged, also when that value carries no message text.                *)
(***************************************************************************)
C7_OtherErrorPropagatedUnchanged ==
    \A i \in Inv :
        EndsWithOtherError(hist[i]) =>
            (frame[i].pc = "threw" /\ frame[i].error = Last(hist[i]).error)

(***************************************************************************)
(* C8: concurrent invocations are independent: under every interleaving,   *)
(* each invocation's attempts, delays, events and outcome are those of a   *)
(* run on its own against the same sequence of external responses.         *)
(***************************************************************************)
\* The activation reached by one invocation running alone with input, right
\* after it received the responses h (its timer, if armed, not yet fired).
RECURSIVE RunAlone(_, _)
RunAlone(input, h) ==
    IF Len(h) = 0 THEN Start(input)
    ELSE LET before == RunAlone(input, Front(h))
             ready  == IF before.pc = "sleeping" THEN Elapsed(before) ELSE before
             r      == Last(h)
         IN  IF r.ok THEN Resolved(ready, r.output) ELSE Rejected(ready, r.error)

C8_InvocationsIndependent ==
    \A i \in Inv :
        frame[i].pc # "idle" =>
            LET alone == RunAlone(frame[i].input, hist[i])
            IN  \/ frame[i] = alone
                \/ alone.pc = "sleeping" /\ frame[i] = Elapsed(alone)

\* Two invocations interleaved, at different points of their backoff.
C8_Witness ==
    \E i, j \in Inv :
        /\ i # j
        /\ frame[i].pc = "awaiting" /\ frame[i].retries = 2 /\ frame[i].delay = 8000
        /\ frame[j].pc = "sleeping" /\ frame[j].retries = 0 /\ frame[j].delay = 2000

(***************************************************************************)
(* C9: the prompt payload always contains the serialized survey records    *)
(* (every column name and every value of every record), and contains the   *)
(* language clause if and only if language is present and non-empty; with  *)
(* language 'fr' the clause references 'fr'.                               *)
(***************************************************************************)
HasLanguageClause(payload) == "Note: The survey data is in" \in Range(payload)

MentionsRecords(payload, surveyData) ==
    \A k \in 1..Len(surveyData) : \A c \in 1..Len(surveyData[k]) :
        /\ surveyData[k][c][1] \in Range(payload)
        /\ surveyData[k][c][2] \in Range(payload)

C9_PayloadHasRecordsAndLanguageClause ==
    \A i \in Inv :
        frame[i].calls >= 1 =>
            /\ MentionsRecords(frame[i].payload, frame[i].input.surveyData)
            /\ HasLanguageClause(frame[i].payload)
                  <=> (frame[i].input.language.defined /\ frame[i].input.language.str # "")
            /\ frame[i].input.language = LangFr => "fr" \in Range(frame[i].payload)

\* The language half of C9 on its own.
LanguageClauseIffNonEmpty ==
    \A i \in Inv :
        frame[i].calls >= 1 =>
            /\ HasLanguageClause(frame[i].payload)
                  <=> (frame[i].input.language.defined /\ frame[i].input.language.str # "")
            /\ frame[i].input.language = LangFr => "fr" \in Range(frame[i].payload)

(***************************************************************************)
(* C10: the total backoff sleep of one invocation never exceeds 14000 ms   *)
(* and no single sleep exceeds 8000 ms.                                    *)
(***************************************************************************)
C10_SleepBounded ==
    \A i \in Inv :
        /\ Sum(Sleeps(frame[i].trace)) <= 14000
        /\ \A k \in 1..Len(Sleeps(frame[i].trace)) : Sleeps(frame[i].trace)[k] <= 8000

C10_Witness ==
    \E i \in Inv :
        /\ Sum(Sleeps(frame[i].trace)) = 14000
        /\ Sleeps(frame[i].trace) = <<2000, 4000, 8000>>

(***************************************************************************)
(* C11: one warning line per retry: when an invocation has ended, the      *)
(* number of warning lines equals the number of external calls made after  *)
(* the first one, and each warning is followed by a sleep of the duration  *)
(* it states and then by a further attempt.                                *)
(***************************************************************************)
Count(trace, kind) == Cardinality({k \in 1..Len(trace) : trace[k].ev = kind})

Ended(f) == f.pc \in {"returned", "threw"}

C11_OneWarningPerRetry ==
    \A i \in Inv :
        Ended(frame[i]) =>
            LET t == frame[i].trace
            IN  /\ Count(t, "warn") = frame[i].calls - 1
                /\ \A k \in 1..Len(t) :
                      t[k].ev = "warn" =>
                          /\ k + 2 <= Len(t)
                          /\ t[k + 1] = SleepEvent(t[k].n * 1000)
                          /\ t[k + 2].ev = "call"

(***************************************************************************)
(* C12: a rate-limit error on the last allowed attempt (the third) moves   *)
(* the invocation straight to Failed without a RetryWait (no sleep after   *)
(* the final attempt), and every RetryWait is followed by another          *)
(* Attempting.                                                             *)
(***************************************************************************)
C12_NoWaitAfterLastAttempt ==
    [][\A i \in Inv :
          /\ (frame[i].pc = "awaiting" /\ frame[i].calls = 3 /\ frame'[i].pc # "awaiting")
                => frame'[i].pc \in {"returned", "threw"}
          /\ (frame[i].pc = "sleeping" /\ frame'[i].pc # "sleeping")
                => frame'[i].pc = "awaiting"]_vars

(***************************************************************************)
(* C13: the rate-limit-exhausted error is raised only when exactly 3       *)
(* external calls were made and every one of them failed with a rate-limit *)
(* error; never after a success or after another error.                    *)
(***************************************************************************)
C13_ExhaustedOnlyAfterThreeRateLimits ==
    \A i \in Inv :
        (frame[i].pc = "threw" /\ (frame[i].exit = "exhausted" \/ frame[i].error = ExhaustedErr)) =>
            /\ frame[i].calls = 3
            /\ Len(hist[i]) = 3
            /\ \A k \in 1..3 :
                  /\ ~hist[i][k].ok
                  /\ hist[i][k].error.hasMessage
                  /\ Includes(hist[i][k].error.message, <<"429", "Too", "Many", "Requests">>)

C13_Witness ==
    \E i \in Inv :
        /\ frame[i].pc = "threw"
        /\ frame[i].exit = "exhausted"
        /\ frame[i].error = ExhaustedErr
        /\ Len(hist[i]) = 3

(***************************************************************************)
(* C14: every invocation eventually reaches exactly one terminal outcome:  *)
(* a returned result, the propagated upstream error, or the                *)
(* rate-limit-exhausted error, provided every external call eventually     *)
(* responds and every timed wait eventually elapses.                       *)
(***************************************************************************)
\* Every awaited call settles and every armed timer fires.
Fairness ==
    \A i \in Inv :
        /\ WF_vars(\E out \in Outputs : PromptResolves(i, out))
        /\ WF_vars(\E err \in ThrownValues : PromptRejects(i, err))
        /\ WF_vars(TimerFires(i))

FairSpec == Init /\ [][Next]_vars /\ Fairness

ReturnedResult(i) ==
    /\ frame[i].pc = "returned"
    /\ Len(hist[i]) > 0 /\ Last(hist[i]).ok
    /\ frame[i].result = Last(hist[i]).output

PropagatedUpstreamError(i) ==
    /\ frame[i].pc = "threw"
    /\ frame[i].exit # "exhausted"
    /\ Len(hist[i]) > 0 /\ ~Last(hist[i]).ok
    /\ frame[i].error = Last(hist[i]).error

RateLimitExhausted(i) ==
    /\ frame[i].pc = "threw"
    /\ frame[i].exit = "exhausted"
    /\ frame[i].error = ExhaustedErr

OneOutcome(i) ==
    \/ ReturnedResult(i) /\ ~PropagatedUpstreamError(i) /\ ~RateLimitExhausted(i)
    \/ ~ReturnedResult(i) /\ PropagatedUpstreamError(i) /\ ~RateLimitExhausted(i)
    \/ ~ReturnedResult(i) /\ ~PropagatedUpstreamError(i) /\ RateLimitExhausted(i)

C14_EventuallyOneOutcome ==
    \A i \in Inv : (frame[i].pc # "idle") ~> OneOutcome(i)

\* The termination half of C14 on its own: an invoked handler ends.
InvocationEnds ==
    \A i \in Inv : (frame[i].pc # "idle") ~> Ended(frame[i])

\* The outcome half of C14 on its own, at the moment the handler has ended.
EndedWithOneOutcome ==
    \A i \in Inv : Ended(frame[i]) => OneOutcome(i)

(***************************************************************************)
(* C15: wherever the loop is about to make an external call or about to    *)
(* sleep, 0 <= retries <= 3 and delay = 2000 * 2^retries; retries and      *)
(* delay never decrease, and they change only on a rate-limit error:       *)
(* retries by exactly 1 and delay by exactly doubling.                     *)
(***************************************************************************)
AtCallOrSleep(f) == f.pc \in {"awaiting", "sleeping"}

C15_AtLoopPoints ==
    \A i \in Inv :
        AtCallOrSleep(frame[i]) =>
            /\ 0 <= frame[i].retries
            /\ frame[i].retries <= 3
            /\ frame[i].delay = 2000 * 2 ^ frame[i].retries

\* A step of an invoked handler leaves retries and delay alone, or is the
\* continuation after a rate-limit error and adds 1 and doubles.
C15_Step ==
    \A i \in Inv :
        frame[i].pc # "idle" =>
            /\ frame'[i].retries >= frame[i].retries
            /\ frame'[i].delay >= frame[i].delay
            /\ \/ frame'[i].retries = frame[i].retries /\ frame'[i].delay = frame[i].delay
               \/ /\ frame'[i].retries = frame[i].retries + 1
                  /\ frame'[i].delay = 2 * frame[i].delay
                  /\ Len(hist[i]) > 0
                  /\ Last(hist[i]) = Rejection(RateLimitErr)

C15_RetryStateInvariant == []C15_AtLoopPoints /\ [][C15_Step]_vars

C15_Witness ==
    \E i \in Inv :
        /\ frame[i].pc = "sleeping"
        /\ frame[i].retries = 2
        /\ frame[i].delay = 8000
        /\ Last(hist[i]) = Rejection(RateLimitErr)

====
